---- MODULE Spec2Model ----
(***************************************************************************)
(* A model of the two React hooks of src/hooks/client.tsx:                 *)
(*   useWS  - one WebSocket connection mirrored into React state,          *)
(*   useApi - fetch() helpers sharing one isLoading / error pair.          *)
(* The two hooks share no state; each has its own specification (SpecWS,   *)
(* SpecApi) over its own variables.                                        *)
(***************************************************************************)
EXTENDS Integers, Sequences, FiniteSets, TLC

\* ------------------------------------------------------------------ bounds
MaxSockets == 3      \* sockets one useWS instance creates in a behaviour
MaxMessages == 2     \* entries of `messages`
MaxRequests == 2     \* request() calls of one useApi instance

\* ------------------------------------------------------------------ useWS
VARIABLES
  url,               \* the hook's argument: a target the platform accepts or rejects
  sockets,           \* the WebSocket objects made by `new WebSocket(url)`, in creation order
  webSocketRef,      \* webSocketRef.current: an index into sockets, or NoSocket
  connectionStatus,  \* useState: "connected" | "disconnected" | "connecting"
  wsError,           \* useState `error` of useWS
  messages,          \* useState `messages`
  mounted,           \* the component holding the hook is mounted
  thrown,            \* the last call on the hook ended in an exception
  lastOp             \* the call or event that ran last

\* ------------------------------------------------------------------ useApi
VARIABLES
  isLoading,         \* useState `isLoading`
  apiError,          \* useState `error` of useApi
  requests,          \* the request() calls made so far, in call order
  trace              \* the order in which calls started and settled

wsVars == <<url, sockets, webSocketRef, connectionStatus, wsError, messages,
            mounted, thrown, lastOp>>
apiVars == <<isLoading, apiError, requests, trace>>
vars == <<wsVars, apiVars>>

NoSocket == 0        \* webSocketRef.current = null
Null == "null"       \* `null` in a cell that holds a string
NoError == <<>>      \* `null` in a cell that holds a diagnostic of useApi

Urls == {"wss://echo.example/socket", "not a url"}
Payloads == {"ping", "pong"}

\* What `new WebSocket(url)` does with the target: a URL it cannot parse, or
\* whose scheme is not ws/wss, makes the constructor throw a SyntaxError.
ValidUrl(u) == u = "wss://echo.example/socket"

WsNotConnected == "WebSocket is not connected"
WsErrorOccurred == "WebSocket error occurred"

\* A socket is live: created, not closed, and close() not called on it.
Live(s) == s.readyState \in {"CONNECTING", "OPEN"}

NewSocket == [readyState |-> "CONNECTING", sent |-> <<>>]

\* The hook's mutable cells, as the event handlers (closures over the setters
\* and the ref) see them.
Hook == [ref |-> webSocketRef, status |-> connectionStatus,
         error |-> wsError, messages |-> messages]

Commit(h) ==
  /\ webSocketRef' = h.ref
  /\ connectionStatus' = h.status
  /\ wsError' = h.error
  /\ messages' = h.messages

\* onopen without setError(null).
onopenKeepsError(h) == [h EXCEPT !.status = "connected"]

\* webSocket.onopen
onopen(h) == [h EXCEPT !.status = "connected", !.error = Null]

\* webSocket.onclose
onclose(h) == [h EXCEPT !.status = "disconnected", !.ref = NoSocket]

\* onerror without setError(...).
onerrorSilent(h) == [h EXCEPT !.status = "disconnected", !.ref = NoSocket]

\* webSocket.onerror
onerror(h) == [h EXCEPT !.error = WsErrorOccurred, !.status = "disconnected",
                        !.ref = NoSocket]

\* onmessage putting the new entry first.
onmessagePrepend(h, data) ==
  [h EXCEPT !.messages = <<[type |-> "received", content |-> data]>> \o @]

\* webSocket.onmessage
onmessage(h, data) ==
  [h EXCEPT !.messages = Append(@, [type |-> "received", content |-> data])]

\* WebSocket.prototype.close(): a socket not yet closed starts closing.
Close(s) ==
  IF s.readyState \in {"CONNECTING", "OPEN"}
  THEN [s EXCEPT !.readyState = "CLOSING"]
  ELSE s

InitWS ==
  /\ url \in Urls
  /\ sockets = <<>>
  /\ webSocketRef = NoSocket
  /\ connectionStatus = "disconnected"
  /\ wsError = Null
  /\ messages = <<>>
  /\ mounted = TRUE
  /\ thrown = FALSE
  /\ lastOp = "init"

InitApi ==
  /\ isLoading = FALSE
  /\ apiError = NoError
  /\ requests = <<>>
  /\ trace = <<>>

\* ------------------------------------------------------------ useWS calls

\* connect() taking up the socket made last instead of constructing one.
connectReuse ==
  /\ mounted
  /\ lastOp' = "connect"
  /\ IF webSocketRef # NoSocket
     THEN /\ thrown' = FALSE
          /\ UNCHANGED <<sockets, webSocketRef, connectionStatus>>
     ELSE IF ~ValidUrl(url)
     THEN /\ connectionStatus' = "connecting"
          /\ thrown' = TRUE
          /\ UNCHANGED <<sockets, webSocketRef>>
     ELSE IF sockets # <<>>
     THEN /\ connectionStatus' = "connecting"
          /\ webSocketRef' = Len(sockets)
          /\ thrown' = FALSE
          /\ UNCHANGED sockets
     ELSE /\ connectionStatus' = "connecting"
          /\ sockets' = Append(sockets, NewSocket)
          /\ webSocketRef' = Len(sockets) + 1
          /\ thrown' = FALSE
  /\ UNCHANGED <<url, wsError, messages, mounted, apiVars>>

\* connect(): returns at once when the ref holds a socket; otherwise sets the
\* status, constructs the socket (which may throw), stores it in the ref and
\* assigns the four handlers.
connect ==
  /\ mounted
  /\ lastOp' = "connect"
  /\ IF webSocketRef # NoSocket
     THEN /\ thrown' = FALSE
          /\ UNCHANGED <<sockets, webSocketRef, connectionStatus>>
     ELSE IF ~ValidUrl(url)
     THEN /\ connectionStatus' = "connecting"
          /\ thrown' = TRUE
          /\ UNCHANGED <<sockets, webSocketRef>>
     ELSE /\ Len(sockets) < MaxSockets
          /\ connectionStatus' = "connecting"
          /\ sockets' = Append(sockets, NewSocket)
          /\ webSocketRef' = Len(sockets) + 1
          /\ thrown' = FALSE
  /\ UNCHANGED <<url, wsError, messages, mounted, apiVars>>

\* The body of disconnect(): close the held socket if any, drop it, set the status.
DoDisconnect ==
  /\ sockets' = IF webSocketRef # NoSocket
                THEN [sockets EXCEPT ![webSocketRef] = Close(@)]
                ELSE sockets
  /\ webSocketRef' = NoSocket
  /\ connectionStatus' = "disconnected"

disconnect ==
  /\ mounted
  /\ lastOp' = "disconnect"
  /\ DoDisconnect
  /\ thrown' = FALSE
  /\ UNCHANGED <<url, wsError, messages, mounted, apiVars>>

\* sendMessage(message): sends and records when the held socket is OPEN.
sendMessage(message) ==
  /\ mounted
  /\ lastOp' = "sendMessage"
  /\ thrown' = FALSE
  /\ IF webSocketRef # NoSocket /\ sockets[webSocketRef].readyState = "OPEN"
     THEN /\ Len(messages) < MaxMessages
          /\ sockets' = [sockets EXCEPT ![webSocketRef].sent = Append(@, message)]
          /\ messages' = Append(messages, [type |-> "sent", content |-> message])
          /\ UNCHANGED wsError
     ELSE /\ wsError' = WsNotConnected
          /\ UNCHANGED <<sockets, messages>>
  /\ UNCHANGED <<url, webSocketRef, connectionStatus, mounted, apiVars>>

\* The cleanup of the effect: disconnect() when the component unmounts.
unmount ==
  /\ mounted
  /\ mounted' = FALSE
  /\ lastOp' = "unmount"
  /\ DoDisconnect
  /\ thrown' = FALSE
  /\ UNCHANGED <<url, wsError, messages, apiVars>>

\* ----------------------------------------------------------- socket events
\* The platform fires a socket's events at the handlers assigned in connect(),
\* whether or not the ref still holds that socket.

\* open: the connection is established.
SocketOpen(i) ==
  /\ sockets[i].readyState = "CONNECTING"
  /\ sockets' = [sockets EXCEPT ![i].readyState = "OPEN"]
  /\ Commit(onopen(Hook))
  /\ lastOp' = "open"
  /\ UNCHANGED <<url, mounted, thrown, apiVars>>

\* message: delivered only while the socket is OPEN.
SocketMessage(i, data) ==
  /\ sockets[i].readyState = "OPEN"
  /\ Len(messages) < MaxMessages
  /\ Commit(onmessage(Hook, data))
  /\ lastOp' = "message"
  /\ UNCHANGED <<url, sockets, mounted, thrown, apiVars>>

\* close: the closing handshake completed (the peer's, or the one close() began).
SocketClose(i) ==
  /\ sockets[i].readyState \in {"OPEN", "CLOSING"}
  /\ sockets' = [sockets EXCEPT ![i].readyState = "CLOSED"]
  /\ Commit(onclose(Hook))
  /\ lastOp' = "close"
  /\ UNCHANGED <<url, mounted, thrown, apiVars>>

\* error: the connection failed. The platform sets readyState to CLOSED and
\* fires error and then close in the same task.
SocketError(i) ==
  /\ sockets[i].readyState # "CLOSED"
  /\ sockets' = [sockets EXCEPT ![i].readyState = "CLOSED"]
  /\ Commit(onclose(onerror(Hook)))
  /\ lastOp' = "error"
  /\ UNCHANGED <<url, mounted, thrown, apiVars>>

NextWS ==
  \/ connect
  \/ disconnect
  \/ \E m \in Payloads : sendMessage(m)
  \/ unmount
  \/ \E i \in 1..Len(sockets) : SocketOpen(i)
  \/ \E i \in 1..Len(sockets), d \in Payloads : SocketMessage(i, d)
  \/ \E i \in 1..Len(sockets) : SocketClose(i)
  \/ \E i \in 1..Len(sockets) : SocketError(i)

Init == InitWS /\ InitApi

SpecWS == Init /\ [][NextWS]_vars

\* ----------------------------------------------------------------- useApi
\* JavaScript values, tagged by their kind. A number is an integer, an array a
\* sequence of values, an object a sequence of <<key, value>> pairs.
Undefined == <<"undefined">>
Circular == <<"circular">>      \* an object JSON.stringify cannot serialize
JNull == <<"null">>
JBool(b) == <<"bool", b>>
JNum(n) == <<"num", n>>
JStr(str) == <<"str", str>>
JArr(elements) == <<"arr", elements>>
JObj(members) == <<"obj", members>>

Digits == 0..9

\* What a response body can be besides parsed JSON.
Unread == <<"unread">>
Unparsable == <<"unparsable">>

Bodies == {Undefined, JObj(<< <<"title", JStr("New Post")>> >>), JNum(0), Circular}
Statuses == {200, 404}
\* What response.json() can resolve with.
JsonData == {JArr(<< JObj(<< <<"id", JNum(1)>> >>) >>)}

\* JavaScript truthiness of a body, as `options.body ? ... : undefined` tests it.
Truthy(b) == b \notin {Undefined, JNull, JBool("false"), JNum(0), JStr("")}

\* JSON.stringify throws on a value it cannot serialize.
StringifyThrows(b) == b = Circular

RECURSIVE Stringify(_)
RECURSIVE StringifyElements(_)
RECURSIVE StringifyMembers(_)

\* The elements of an array, separated by commas.
StringifyElements(es) ==
  IF es = <<>> THEN <<>>
  ELSE IF Len(es) = 1 THEN Stringify(es[1])
  ELSE Stringify(es[1]) \o <<",">> \o StringifyElements(Tail(es))

\* The members of an object, "key":value, separated by commas.
StringifyMembers(ms) ==
  IF ms = <<>> THEN <<>>
  ELSE LET m == <<"\"", ms[1][1], "\"", ":">> \o Stringify(ms[1][2])
       IN IF Len(ms) = 1 THEN m ELSE m \o <<",">> \o StringifyMembers(Tail(ms))

\* JSON.stringify(value): the JSON text, as its sequence of tokens.
Stringify(v) ==
  CASE v[1] = "null" -> <<"null">>
    [] v[1] = "bool" -> <<v[2]>>
    [] v[1] = "num" -> <<ToString(v[2])>>
    [] v[1] = "str" -> <<"\"", v[2], "\"">>
    [] v[1] = "arr" -> <<"[">> \o StringifyElements(v[2]) \o <<"]">>
    [] v[1] = "obj" -> <<"{">> \o StringifyMembers(v[2]) \o <<"}">>

NoParse == [ok |-> FALSE, val |-> Unparsable, next |-> 0]

RECURSIVE ParseValue(_, _)
RECURSIVE ParseElements(_, _, _)
RECURSIVE ParseMembers(_, _, _)

\* The elements of an array from place p on, after those in acc.
ParseElements(ts, p, acc) ==
  LET e == ParseValue(ts, p)
  IN IF ~e.ok \/ e.next > Len(ts) THEN NoParse
     ELSE IF ts[e.next] = "]"
     THEN [ok |-> TRUE, val |-> JArr(Append(acc, e.val)), next |-> e.next + 1]
     ELSE IF ts[e.next] = ","
     THEN ParseElements(ts, e.next + 1, Append(acc, e.val))
     ELSE NoParse

\* The members of an object from place p on, after those in acc.
ParseMembers(ts, p, acc) ==
  IF p + 3 > Len(ts) \/ ts[p] # "\"" \/ ts[p + 2] # "\"" \/ ts[p + 3] # ":"
  THEN NoParse
  ELSE LET e == ParseValue(ts, p + 4)
           ms == Append(acc, <<ts[p + 1], e.val>>)
       IN IF ~e.ok \/ e.next > Len(ts) THEN NoParse
          ELSE IF ts[e.next] = "}"
          THEN [ok |-> TRUE, val |-> JObj(ms), next |-> e.next + 1]
          ELSE IF ts[e.next] = ","
          THEN ParseMembers(ts, e.next + 1, ms)
          ELSE NoParse

\* One JSON value from place p of the tokens ts.
ParseValue(ts, p) ==
  IF p > Len(ts) THEN NoParse
  ELSE LET t == ts[p] IN
    IF t = "null" THEN [ok |-> TRUE, val |-> JNull, next |-> p + 1]
    ELSE IF t \in {"true", "false"} THEN [ok |-> TRUE, val |-> JBool(t), next |-> p + 1]
    ELSE IF t = "\""
    THEN IF p + 2 <= Len(ts) /\ ts[p + 2] = "\""
         THEN [ok |-> TRUE, val |-> JStr(ts[p + 1]), next |-> p + 3]
         ELSE NoParse
    ELSE IF t = "["
    THEN IF p + 1 <= Len(ts) /\ ts[p + 1] = "]"
         THEN [ok |-> TRUE, val |-> JArr(<<>>), next |-> p + 2]
         ELSE ParseElements(ts, p + 1, <<>>)
    ELSE IF t = "{"
    THEN IF p + 1 <= Len(ts) /\ ts[p + 1] = "}"
         THEN [ok |-> TRUE, val |-> JObj(<<>>), next |-> p + 2]
         ELSE ParseMembers(ts, p + 1, <<>>)
    ELSE IF \E n \in Digits : ToString(n) = t
    THEN [ok |-> TRUE, val |-> JNum(CHOOSE n \in Digits : ToString(n) = t),
          next |-> p + 1]
    ELSE NoParse

\* response.json() on a body text: the value, or Unparsable when it rejects.
Parse(ts) ==
  LET r == ParseValue(ts, 1)
  IN IF r.ok /\ r.next = Len(ts) + 1 THEN r.val ELSE Unparsable

\* The `body` option handed to fetch.
Payload(b) == IF Truthy(b) THEN Stringify(b) ELSE Undefined

\* The check of response.ok left out.
OkUnchecked(status) == TRUE

\* response.ok
Ok(status) == status \in 200..299

\* A diagnostic (err.message) is the sequence of the pieces it is built from.
HttpError(status) == <<"HTTP error! status: ", ToString(status)>>
StringifyError == <<"Converting circular structure to JSON">>
FetchError == <<"Failed to fetch">>
ParseError == <<"Unexpected end of JSON input">>

\* The records request() returns.
Success(data) == [data |-> data, error |-> NoError, isLoading |-> FALSE]
Failure(message) == [data |-> JNull, error |-> message, isLoading |-> FALSE]
NoResult == [data |-> JNull, error |-> NoError, isLoading |-> TRUE]

\* A call of request(): where it is suspended, what the platform did in its
\* exchange, and the record its promise resolved with.
NewRequest(input, payload) ==
  [pc |-> "fetch", input |-> input, payload |-> payload, transport |-> "pending",
   status |-> 0, body |-> Unread, result |-> NoResult]

Outstanding == {i \in 1..Len(requests) : requests[i].pc # "done"}

\* finally { setIsLoading(false) }
Finally == isLoading' = FALSE

\* The catch block with setIsLoading(false) at the end of the try block only.
CatchNoFinally(rs, tr, i, message) ==
  /\ apiError' = message
  /\ requests' = [rs EXCEPT ![i].pc = "done", ![i].result = Failure(message)]
  /\ trace' = Append(tr, <<"settle", i>>)
  /\ UNCHANGED isLoading

\* catch (err) { setError(err.message); return {data: null, error: err.message,
\* isLoading: false} }, then the finally block. rs and tr are the calls and the
\* order as they stand when the exception is thrown.
Catch(rs, tr, i, message) ==
  /\ apiError' = message
  /\ requests' = [rs EXCEPT ![i].pc = "done", ![i].result = Failure(message)]
  /\ trace' = Append(tr, <<"settle", i>>)
  /\ Finally

\* The success path clearing the shared error.
ReturnClearsError(rs, tr, i, data) ==
  /\ requests' = [rs EXCEPT ![i].pc = "done", ![i].result = Success(data)]
  /\ trace' = Append(tr, <<"settle", i>>)
  /\ apiError' = NoError
  /\ Finally

\* return {data, error: null, isLoading: false}, then the finally block.
Return(rs, tr, i, data) ==
  /\ requests' = [rs EXCEPT ![i].pc = "done", ![i].result = Success(data)]
  /\ trace' = Append(tr, <<"settle", i>>)
  /\ UNCHANGED apiError
  /\ Finally

\* request() without setError(null) at its start.
requestKeepsError(method, body) ==
  /\ Len(requests) < MaxRequests
  /\ LET i == Len(requests) + 1
         started == Append(trace, <<"start", i>>)
     IN IF Truthy(body) /\ StringifyThrows(body)
        THEN Catch(Append(requests, [NewRequest(body, Undefined) EXCEPT !.transport = "none"]),
                   started, i, StringifyError)
        ELSE /\ isLoading' = TRUE
             /\ UNCHANGED apiError
             /\ requests' = Append(requests, NewRequest(body, Payload(body)))
             /\ trace' = started
  /\ UNCHANGED wsVars

\* request(url, {method, headers, body}) up to its first await: the flags are
\* set, the body is serialized and fetch is called. A body that cannot be
\* serialized throws inside the try block, and the call settles at once.
request(method, body) ==
  /\ Len(requests) < MaxRequests
  /\ LET i == Len(requests) + 1
         started == Append(trace, <<"start", i>>)
     IN IF Truthy(body) /\ StringifyThrows(body)
        THEN Catch(Append(requests, [NewRequest(body, Undefined) EXCEPT !.transport = "none"]),
                   started, i, StringifyError)
        ELSE /\ isLoading' = TRUE
             /\ apiError' = NoError
             /\ requests' = Append(requests, NewRequest(body, Payload(body)))
             /\ trace' = started
  /\ UNCHANGED wsVars

get == request("GET", Undefined)
post(body) == request("POST", body)
put(body) == request("PUT", body)
del == request("DELETE", Undefined)

\* fetch() resolves with a response: a non-ok status throws into the catch
\* block, an ok one goes on to await response.json().
FetchResolve(i, status) ==
  /\ requests[i].pc = "fetch"
  /\ LET rs == [requests EXCEPT ![i].transport = "ok", ![i].status = status]
     IN IF ~Ok(status)
        THEN Catch(rs, trace, i, HttpError(status))
        ELSE /\ requests' = [rs EXCEPT ![i].pc = "json"]
             /\ UNCHANGED <<apiError, isLoading, trace>>
  /\ UNCHANGED wsVars

\* fetch() rejects: a network failure.
FetchReject(i) ==
  /\ requests[i].pc = "fetch"
  /\ Catch([requests EXCEPT ![i].transport = "failed"], trace, i, FetchError)
  /\ UNCHANGED wsVars

\* response.json() resolves with the parsed body.
JsonResolve(i, data) ==
  /\ requests[i].pc = "json"
  /\ Return([requests EXCEPT ![i].body = data], trace, i, data)
  /\ UNCHANGED wsVars

\* response.json() rejects: the body is not JSON.
JsonReject(i) ==
  /\ requests[i].pc = "json"
  /\ Catch([requests EXCEPT ![i].body = Unparsable], trace, i, ParseError)
  /\ UNCHANGED wsVars

NextApi ==
  \/ get
  \/ \E b \in Bodies : post(b)
  \/ \E b \in Bodies : put(b)
  \/ del
  \/ \E i \in 1..Len(requests), st \in Statuses : FetchResolve(i, st)
  \/ \E i \in 1..Len(requests) : FetchReject(i)
  \/ \E i \in 1..Len(requests), d \in JsonData \cup {JNull} : JsonResolve(i, d)
  \/ \E i \in 1..Len(requests) : JsonReject(i)

SpecApi == Init /\ [][NextApi]_vars

\* ------------------------------------------------------------ echo server
\* A server that answers every request with an ok status and, as its body,
\* the payload it was sent (nothing when it was sent none).
EchoBodies ==
  {JObj(<< <<"title", JStr("New Post")>> >>), JArr(<< JNum(1), JStr("a") >>),
   JStr("a"), JStr(""), JNum(1), JNum(0), JBool("true"), JBool("false"), JNull}

EchoRespond(i) == FetchResolve(i, 200)

EchoBody(i) ==
  LET text == IF requests[i].payload = Undefined THEN <<>> ELSE requests[i].payload
      data == Parse(text)
  IN IF data = Unparsable
     THEN JsonReject(i)
     ELSE JsonResolve(i, data)

NextEcho ==
  \/ \E b \in EchoBodies : post(b)
  \/ \E i \in 1..Len(requests) : EchoRespond(i)
  \/ \E i \in 1..Len(requests) : EchoBody(i)

SpecEcho == Init /\ [][NextEcho]_vars

\* ------------------------------------------------------------ properties

LiveSockets == {i \in 1..Len(sockets) : Live(sockets[i])}

\* C1: at most one socket created by the instance is live at any time.
AtMostOneLive == Cardinality(LiveSockets) <= 1

\* C2: connect() while status is connecting or connected is a no-op: no socket
\* is created and status, the held connection, history and lastError stay.
ConnectIsNoOpWhenNotDisconnected ==
  [][(connect /\ connectionStatus \in {"connecting", "connected"})
       => UNCHANGED <<sockets, webSocketRef, connectionStatus, messages, wsError>>]_vars

\* C3: sendMessage(content) transmits content and appends {sent, content} iff
\* status = connected at the call; otherwise nothing is transmitted, history
\* is unchanged and lastError becomes "WebSocket is not connected".
SendIffStatusConnected ==
  [][\A m \in Payloads : sendMessage(m) =>
       IF connectionStatus = "connected"
       THEN /\ messages' = Append(messages, [type |-> "sent", content |-> m])
            /\ \E i \in 1..Len(sockets) : sockets'[i].sent = Append(sockets[i].sent, m)
       ELSE /\ UNCHANGED <<sockets, messages>>
            /\ wsError' = WsNotConnected]_vars

\* C4: disconnect() with a connection held requests its closure and leaves no
\* connection held and status disconnected; with none held it is a no-op that
\* raises nothing and leaves status, history and lastError unchanged.
DisconnectReleasesOrNoOp ==
  [][disconnect =>
       IF webSocketRef # NoSocket
       THEN /\ ~Live(sockets'[webSocketRef])
            /\ webSocketRef' = NoSocket
            /\ connectionStatus' = "disconnected"
       ELSE /\ ~thrown'
            /\ UNCHANGED <<connectionStatus, messages, wsError>>]_vars

\* C5: after the teardown on unmount no socket of the instance is live.
NoLiveSocketAfterUnmount == ~mounted => LiveSockets = {}

AllSettled == requests # <<>> /\ Outstanding = {}

\* C6: isLoading is true whenever a started request has not settled.
LoadingWhileOutstanding == Outstanding # {} => isLoading

\* C7: with no request outstanding, isLoading is false.
IdleNotLoading == Outstanding = {} => ~isLoading

\* Some call failed by exception, another succeeded, and all have settled.
IdleNotLoadingWitness ==
  /\ AllSettled
  /\ ~isLoading
  /\ \E i \in 1..Len(requests) : requests[i].transport = "failed"
  /\ \E i \in 1..Len(requests) : requests[i].result.error = NoError

\* The call that settled last.
LastSettled == trace[Len(trace)][2]

\* C8: once all overlapping calls have settled, isLoading is false and error is
\* the diagnostic of the last call to settle if it failed, null if it succeeded.
LastSettledWins ==
  AllSettled => /\ ~isLoading
                /\ apiError = requests[LastSettled].result.error

\* The places of the trace after the most recent start where a call failed.
FailedSinceLastStart ==
  LET starts == {k \in 1..Len(trace) : trace[k][1] = "start"}
      lastStart == CHOOSE k \in starts : \A j \in starts : j <= k
  IN {k \in (lastStart + 1)..Len(trace) :
        requests[trace[k][2]].result.error # NoError}

\* C8, amended: once all calls have settled, isLoading is false and error is the
\* diagnostic of the last failing call to settle after the most recent call
\* started, or null when none failed after that start.
LastFailureSinceStartWins ==
  AllSettled =>
    /\ ~isLoading
    /\ apiError = IF FailedSinceLastStart = {}
                  THEN NoError
                  ELSE LET k == CHOOSE k \in FailedSinceLastStart :
                                  \A j \in FailedSinceLastStart : j <= k
                       IN requests[trace[k][2]].result.error

\* Two calls overlapped, the first to settle failed and the last succeeded.
LastFailureSinceStartWinsWitness ==
  /\ AllSettled
  /\ Len(trace) >= 4
  /\ trace[1][1] = "start" /\ trace[2][1] = "start"
  /\ requests[LastSettled].result.error = NoError
  /\ apiError # NoError

\* C9: a call's record is decided by its own exchange alone: the parsed body
\* with no error iff the transport succeeded, the status was ok and the body
\* parsed; otherwise no data and a diagnostic, which holds the status code when
\* the status was not ok.
ResultFromOwnExchange ==
  \A i \in 1..Len(requests) :
    LET r == requests[i]
        good == /\ r.transport = "ok"
                /\ r.status \in 200..299
                /\ r.body \notin {Unread, Unparsable}
    IN r.pc = "done" =>
         /\ good => r.result = [data |-> r.body, error |-> NoError, isLoading |-> FALSE]
         /\ ~good => /\ r.result.data = JNull
                     /\ r.result.error # NoError
                     /\ r.result.isLoading = FALSE
         /\ (r.transport = "ok" /\ r.status \notin 200..299) =>
              \E k \in DOMAIN r.result.error : r.result.error[k] = ToString(r.status)

\* Two overlapping calls settled, one with a 404 and one with parsed data.
ResultFromOwnExchangeWitness ==
  /\ AllSettled
  /\ Len(trace) >= 4
  /\ trace[1][1] = "start" /\ trace[2][1] = "start"
  /\ \E i \in 1..Len(requests) : requests[i].status = 404
  /\ \E i \in 1..Len(requests) : requests[i].result.data \in JsonData

\* C10: no call ends in an exception: connect(), disconnect() and
\* sendMessage() return normally.
NoCallThrows == ~thrown

\* C11: a transport error of the held connection sets error to "WebSocket
\* error occurred", status to disconnected and releases the connection; and a
\* socket is created by, and only by, a connect() call made while no connection
\* is held, so sockets and such calls are equal in number.
ErrorReleasesAndSocketPerConnect ==
  [][/\ \A i \in 1..Len(sockets) :
          (SocketError(i) /\ webSocketRef = i) =>
             /\ wsError' = WsErrorOccurred
             /\ connectionStatus' = "disconnected"
             /\ webSocketRef' = NoSocket
     /\ Len(sockets') - Len(sockets) =
          IF connect /\ webSocketRef = NoSocket THEN 1 ELSE 0]_vars

\* C11, amended: as C11, with a socket created by, and only by, a connect()
\* call made while no connection is held and whose target the WebSocket
\* constructor accepts.
ErrorReleasesAndSocketPerAcceptedConnect ==
  [][/\ \A i \in 1..Len(sockets) :
          (SocketError(i) /\ webSocketRef = i) =>
             /\ wsError' = WsErrorOccurred
             /\ connectionStatus' = "disconnected"
             /\ webSocketRef' = NoSocket
     /\ Len(sockets') - Len(sockets) =
          IF connect /\ webSocketRef = NoSocket /\ ValidUrl(url) THEN 1 ELSE 0]_vars

\* An error event has just run, the only socket ever made is closed and
\* released, and the error is shown.
ErrorReleasesWitness ==
  /\ lastOp = "error"
  /\ Len(sockets) = 1
  /\ sockets[1].readyState = "CLOSED"
  /\ webSocketRef = NoSocket
  /\ connectionStatus = "disconnected"
  /\ wsError = WsErrorOccurred

IsPrefix(a, b) == Len(a) <= Len(b) /\ SubSeq(b, 1, Len(a)) = a

\* C12: messages is append-only and ordered: a message event appends exactly
\* one {received, payload} entry at the end, and no step removes, reorders or
\* changes an entry.
HistoryAppendOnly ==
  [][/\ IsPrefix(messages, messages')
     /\ \A i \in 1..Len(sockets), d \in Payloads :
          SocketMessage(i, d) =>
            messages' = Append(messages, [type |-> "received", content |-> d])]_vars

\* Two messages arrived, "ping" before "pong", and are kept in that order.
HistoryAppendOnlyWitness ==
  /\ lastOp = "message"
  /\ messages = <<[type |-> "received", content |-> "ping"],
                  [type |-> "received", content |-> "pong"]>>

\* C13: connect() right after disconnect(), while the prior socket is still
\* closing, creates a new socket and holds it; the ref never takes up a socket
\* that existed before the step.
ReconnectCreatesNewSocket ==
  [][/\ (/\ connect
         /\ lastOp = "disconnect"
         /\ \E j \in 1..Len(sockets) : sockets[j].readyState = "CLOSING")
        => /\ Len(sockets') = Len(sockets) + 1
           /\ SubSeq(sockets', 1, Len(sockets)) = sockets
           /\ webSocketRef' = Len(sockets')
           /\ sockets'[webSocketRef'].readyState = "CONNECTING"
     /\ (webSocketRef' # webSocketRef /\ webSocketRef' # NoSocket)
        => webSocketRef' > Len(sockets)]_vars

\* connect() has just run and holds socket 2 while socket 1 is still closing.
ReconnectCreatesNewSocketWitness ==
  /\ lastOp = "connect"
  /\ Len(sockets) = 2
  /\ sockets[1].readyState = "CLOSING"
  /\ webSocketRef = 2

\* C14: the open event of the held connection sets status to connected and
\* error to null whatever error was; the close event of the held connection
\* sets status to disconnected and empties the ref, so connect() may open anew.
OpenAndCloseOfHeld ==
  [][\A i \in 1..Len(sockets) :
       /\ (SocketOpen(i) /\ webSocketRef = i) =>
            /\ connectionStatus' = "connected"
            /\ wsError' = Null
       /\ (SocketClose(i) /\ webSocketRef = i) =>
            /\ connectionStatus' = "disconnected"
            /\ webSocketRef' = NoSocket]_vars

\* The held socket 2 has just opened after socket 1 failed: the error is cleared.
OpenAndCloseOfHeldWitness ==
  /\ lastOp = "open"
  /\ Len(sockets) = 2
  /\ sockets[1].readyState = "CLOSED"
  /\ webSocketRef = 2
  /\ connectionStatus = "connected"
  /\ wsError = Null

\* The places of the trace where a call failed.
FailedSettles ==
  {k \in 1..Len(trace) :
     trace[k][1] = "settle" /\ requests[trace[k][2]].result.error # NoError}

\* error is null, or the diagnostic of the failing call that settled last, with
\* no call started since.
ErrorIsLastFailure ==
  apiError # NoError =>
    /\ FailedSettles # {}
    /\ LET k == CHOOSE k \in FailedSettles : \A j \in FailedSettles : j <= k
       IN /\ apiError = requests[trace[k][2]].result.error
          /\ \A j \in (k + 1)..Len(trace) : trace[j][1] # "start"

\* C15: a non-null error is the diagnostic of the failing request that settled
\* last, and no request has started since; a request that issues its exchange
\* leaves isLoading true and error null.
ErrorSetByLastFailureClearedAtStart ==
  [][/\ ErrorIsLastFailure'
     /\ (/\ Len(requests') = Len(requests) + 1
         /\ requests'[Len(requests')].pc = "fetch")
        => (isLoading' /\ apiError' = NoError)]_vars

\* A call succeeded and then an overlapping call failed with 404: error shows it.
ErrorSetByLastFailureWitness ==
  /\ AllSettled
  /\ Len(trace) = 4
  /\ trace[1][1] = "start" /\ trace[2][1] = "start"
  /\ requests[trace[3][2]].result.error = NoError
  /\ apiError = HttpError(404)

\* C17: the ref holds a socket iff status is not disconnected, and status is
\* connected iff the held socket exists and is OPEN.
SlotAgreesWithStatus ==
  /\ (webSocketRef # NoSocket) <=> (connectionStatus # "disconnected")
  /\ (connectionStatus = "connected") <=>
       (webSocketRef # NoSocket /\ sockets[webSocketRef].readyState = "OPEN")

\* C18: an event of a socket that disconnect() released changes neither the
\* ref, nor status, nor error, nor messages.
ReleasedSocketEventsIgnored ==
  [][\A i \in 1..Len(sockets) :
       (/\ sockets[i].readyState = "CLOSING"
        /\ \/ SocketOpen(i)
           \/ SocketClose(i)
           \/ SocketError(i)
           \/ \E d \in Payloads : SocketMessage(i, d))
       => UNCHANGED <<webSocketRef, connectionStatus, wsError, messages>>]_vars

\* C19: status becomes connected only from connecting, and only by the open
\* event of the socket the ref holds.
ConnectedOnlyByOpenOfHeld ==
  [][(connectionStatus # "connected" /\ connectionStatus' = "connected")
       => /\ connectionStatus = "connecting"
          /\ \E i \in 1..Len(sockets) : SocketOpen(i) /\ webSocketRef = i]_vars

\* C16: post(url, body) against a server that echoes the payload with an ok
\* status returns data equal to body and error null.
EchoRoundTrip ==
  \A i \in 1..Len(requests) :
    requests[i].pc = "done" =>
      /\ requests[i].result.error = NoError
      /\ requests[i].result.data = requests[i].input

====
